---- MODULE Spec2Model ----
(***************************************************************************)
(* uint_bits (src/src/lib.rs): Writer packs bit fields into one unsigned   *)
(* integer of type T, Reader unpacks them, both through n_bit_mask.        *)
(*                                                                         *)
(* A value of type T is modelled as the set of the positions of its 1      *)
(* bits (position 0 is the least significant bit), so that u128 is         *)
(* represented without integers wider than TLC's.  Shifts, AND and OR are  *)
(* the operations on those sets.                                           *)
(*                                                                         *)
(* Rust's arithmetic on u8 and its shifts are overflow-checked or wrapping *)
(* depending on the build (overflow-checks, on in the dev and test         *)
(* profiles, off in release): the build is chosen in Init, and every       *)
(* primitive returns the wrapped value together with an overflow flag.     *)
(***************************************************************************)
EXTENDS Integers, Sequences, FiniteSets

\* ------------------------------------------------------------------ bounds

\* Most fields one caller writes, and most reads one caller makes.
MaxFields == 3

\* Largest bit count the misusing caller passes (one more than a u8 holds).
MaxCount == 9

\* ------------------------------------------------------------------ types

\* impl_uint!(u8, u16, u32, u64, u128)
Types == {"u8", "u16", "u32", "u64", "u128"}

\* std::mem::size_of::<T>()
size_of(t) ==
    CASE t = "u8" -> 1
      [] t = "u16" -> 2
      [] t = "u32" -> 4
      [] t = "u64" -> 8
      [] t = "u128" -> 16

\* The number of bits of T, as a mathematical integer.
Width(t) == 8 * size_of(t)

\* const fn bit_size<T>() -> u8 { (8 * size_of::<T>()) as u8 }
bit_size(t) == (8 * size_of(t)) % 256

\* <T as Uint>::MAX and ::MIN; MIN is also T::default(), the word of
\* Writer::default().
MAX(t) == 0 .. (Width(t) - 1)
MIN(t) == {}

\* The values of type T.
Word(t) == SUBSET (0 .. (Width(t) - 1))

\* The bits of a small natural number.
ToBits(n) == {i \in 0 .. 30 : (n \div (2 ^ i)) % 2 = 1}

\* ------------------------------------------------- primitive operations
\* Each returns [v |-> the wrapped result, ovf |-> the operation overflowed].
\* With overflow checks on, an overflowing operation panics instead.

\* u8 - u8
sub_u8(a, b) == [v |-> (a - b) % 256, ovf |-> a < b]

\* u8 += u8
add_u8(a, b) == [v |-> (a + b) % 256, ovf |-> a + b > 255]

\* shr with the overflow of the shift amount going unnoticed.
shr_unchecked(t, x, k) ==
    LET s == k % Width(t)
    IN  [v |-> {i - s : i \in {j \in x : j >= s}}, ovf |-> FALSE]

\* T >> u8: a shift amount >= the width overflows; wrapping masks it to the
\* width (a power of two).
shr(t, x, k) ==
    LET s == k % Width(t)
    IN  [v |-> {i - s : i \in {j \in x : j >= s}}, ovf |-> k >= Width(t)]

\* T <<= u8
shl(t, x, k) ==
    LET s == k % Width(t)
    IN  [v |-> {i + s : i \in {j \in x : j + s < Width(t)}}, ovf |-> k >= Width(t)]

\* ---------------------------------------------------------- the library

\* n_bit_mask off by one: a mask of n + 1 bits.
n_bit_mask_wide(t, n) ==
    LET d == sub_u8(bit_size(t), n)
        m == shr(t, MAX(t), (d.v - 1) % 256)
    IN  [v |-> m.v, ovf |-> d.ovf \/ m.ovf]

\* fn n_bit_mask<T: Uint>(n: u8) -> T { T::MAX >> (bit_size::<T>() - n) }
n_bit_mask(t, n) ==
    LET d == sub_u8(bit_size(t), n)
        m == shr(t, MAX(t), d.v)
    IN  [v |-> m.v, ovf |-> d.ovf \/ m.ovf]

\* write without the mask: src is OR-ed in whole.
Writer_write_nomask(t, w, count, src) ==
    LET s == shl(t, w, count)
        m == n_bit_mask(t, count)
    IN  [v |-> s.v \cup src, ovf |-> s.ovf \/ m.ovf]

\* write without the shift: the field is OR-ed over the previous one.
Writer_write_noshift(t, w, count, src) ==
    LET m == n_bit_mask(t, count)
    IN  [v |-> w \cup (src \cap m.v), ovf |-> m.ovf]

\* Writer::write: self.0 <<= count; self.0 |= src.into() & n_bit_mask(count)
Writer_write(t, w, count, src) ==
    LET s == shl(t, w, count)
        m == n_bit_mask(t, count)
    IN  [v |-> s.v \cup (src \cap m.v), ovf |-> s.ovf \/ m.ovf]

\* read_next that does not advance the cursor.
Reader_read_next_stuck(t, bit_vec, pos, count) ==
    LET d1 == sub_u8(bit_size(t), count)
        shift == sub_u8(d1.v, pos)
        sh == shr(t, bit_vec, shift.v)
        m == n_bit_mask(t, count)
    IN  [bits |-> sh.v \cap m.v,
         pos |-> pos,
         ovf |-> d1.ovf \/ shift.ovf \/ sh.ovf \/ m.ovf]

\* Reader::read_next: shift = bit_size - count - pos;
\* bits = (bit_vec >> shift) & n_bit_mask(count); pos += count
Reader_read_next(t, bit_vec, pos, count) ==
    LET d1 == sub_u8(bit_size(t), count)
        shift == sub_u8(d1.v, pos)
        sh == shr(t, bit_vec, shift.v)
        m == n_bit_mask(t, count)
        p == add_u8(pos, count)
    IN  [bits |-> sh.v \cap m.v,
         pos |-> p.v,
         ovf |-> d1.ovf \/ shift.ovf \/ sh.ovf \/ m.ovf \/ p.ovf]

\* ----------------------------------------------------------------- state

VARIABLES
    T,                \* the backing type of this run
    overflow_checks,  \* the build: arithmetic overflow panics (TRUE) or wraps
    caller,           \* which calling program drives the library
    writer,           \* the Writer: [live, v0]; not live once moved or dropped
    reader,           \* the Reader: [live, bit_vec, pos]
    status,           \* "running" or "panicked"
    ret,              \* the last call that returned a word: [op, arg, val]
    fields,           \* the write calls made so far: <<count, src>>
    reads,            \* the read_next calls made: [count, bits, ok]
    ovf               \* some operation so far overflowed

vars == <<T, overflow_checks, caller, writer, reader, status, ret, fields, reads, ovf>>

\* fn write_read() of mod test: the fields it writes, and reads back.
TestFields ==
    << <<11, 42>>, <<24, 1337>>, <<3, 2>>, <<30, 0>>, <<3, 1>>, <<57, 12>> >>

Callers == {"mask", "test", "write_read", "read_write", "writer", "misuse"}

TypesOf(c) ==
    CASE c = "mask" -> Types
      [] c = "test" -> {"u128"}
      [] OTHER -> {"u8"}

RECURSIVE SumCounts(_)
SumCounts(s) == IF s = <<>> THEN 0 ELSE s[1][1] + SumCounts(Tail(s))

RECURSIVE SumReads(_)
SumReads(s) == IF s = <<>> THEN 0 ELSE s[1].count + SumReads(Tail(s))

Min(a, b) == IF a < b THEN a ELSE b

\* The values that fit in the low c bits.
Fit(t, c) == SUBSET (0 .. (Min(c, Width(t)) - 1))

\* Those values, and the same with every bit above the field set.
Oversized(t, c) == Fit(t, c) \cup {v \cup (c .. (Width(t) - 1)) : v \in Fit(t, c)}

\* The state after construction, for a set of callers.
InitOf(cs) ==
    /\ caller \in cs
    /\ T \in TypesOf(caller)
    /\ overflow_checks \in BOOLEAN
    /\ writer = [live |-> TRUE, v0 |-> MIN(T)]
    /\ reader = [live |-> FALSE, bit_vec |-> {}, pos |-> 0]
    /\ status = "running"
    /\ ret = [op |-> "none", arg |-> 0, val |-> {}]
    /\ fields = <<>>
    /\ reads = <<>>
    /\ ovf = FALSE

\* Writer and Reader driven together: the test, and the two round trips.
Init == InitOf({"test", "write_read", "read_write"})

\* Each operation on its own: n_bit_mask, the Writer, and misuse of both.
InitOps == InitOf({"mask", "writer", "misuse"})

\* --------------------------------------------------------------- actions

\* A unit call of n_bit_mask(n), for every u8 n.
CallMask ==
    /\ caller = "mask"
    /\ status = "running"
    /\ ret.op = "none"
    /\ \E n \in 0 .. 255 :
         LET r == n_bit_mask(T, n)
         IN  /\ ovf' = r.ovf
             /\ IF r.ovf /\ overflow_checks
                  THEN /\ status' = "panicked"
                       /\ ret' = [op |-> "n_bit_mask", arg |-> n, val |-> {}]
                  ELSE /\ status' = status
                       /\ ret' = [op |-> "n_bit_mask", arg |-> n, val |-> r.v]
    /\ UNCHANGED <<T, overflow_checks, caller, writer, reader, fields, reads>>

\* The (count, src) pairs the caller may pass to write next.
WriteInputs ==
    CASE caller = "test" ->
           IF Len(fields) < Len(TestFields)
             THEN {<<TestFields[Len(fields) + 1][1], ToBits(TestFields[Len(fields) + 1][2])>>}
             ELSE {}
      [] caller = "write_read" ->
           IF Len(fields) < MaxFields /\ ret.op = "none"
             THEN UNION {{<<c, v>> : v \in Fit(T, c)} :
                            c \in 0 .. (Width(T) - SumCounts(fields))}
             ELSE {}
      [] caller = "read_write" ->
           IF Len(fields) < Len(reads) /\ reader.live
             THEN {<<reads[Len(fields) + 1].count, reads[Len(fields) + 1].bits>>}
             ELSE {}
      [] caller = "writer" ->
           IF Len(fields) < MaxFields
             THEN UNION {{<<c, v>> : v \in Oversized(T, c)} :
                            c \in 0 .. (Width(T) - SumCounts(fields))}
             ELSE {}
      [] caller = "misuse" ->
           IF Len(fields) < MaxFields /\ ~reader.live
             THEN (0 .. MaxCount) \X {MIN(T), MAX(T)}
             ELSE {}
      [] OTHER -> {}

Write(count, src) ==
    /\ status = "running"
    /\ writer.live
    /\ LET r == Writer_write(T, writer.v0, count, src)
       IN  /\ ovf' = (ovf \/ r.ovf)
           /\ IF r.ovf /\ overflow_checks
                THEN /\ status' = "panicked"
                     /\ writer' = [live |-> FALSE, v0 |-> {}]
                ELSE /\ status' = status
                     /\ writer' = [live |-> TRUE, v0 |-> r.v]
    /\ fields' = Append(fields, <<count, src>>)
    /\ UNCHANGED <<T, overflow_checks, caller, reader, ret, reads>>

CallWrite == \E in \in WriteInputs : Write(in[1], in[2])

\* Writer::finish(self) -> T
Finish ==
    /\ status = "running"
    /\ writer.live
    /\ caller \in {"test", "write_read", "read_write", "writer"}
    /\ ret.op # "finish"
    /\ caller = "test" => Len(fields) = Len(TestFields)
    /\ caller = "read_write" => Len(fields) = Len(reads) /\ reader.live
    /\ ret' = [op |-> "finish", arg |-> 0, val |-> writer.v0]
    /\ writer' = [live |-> FALSE, v0 |-> {}]
    /\ UNCHANGED <<T, overflow_checks, caller, reader, status, fields, reads, ovf>>

\* The words the caller may build a Reader over next.
NewInputs ==
    CASE caller \in {"test", "write_read"} ->
           IF ret.op = "finish" THEN {ret.val} ELSE {}
      [] caller = "read_write" -> Word(T)
      [] caller = "misuse" ->
           IF fields = <<>> THEN {MIN(T), MAX(T), ToBits(165)} ELSE {}
      [] OTHER -> {}

\* Reader::new(bit_vec)
New(bit_vec) ==
    /\ status = "running"
    /\ ~reader.live
    /\ reader' = [live |-> TRUE, bit_vec |-> bit_vec, pos |-> 0]
    /\ UNCHANGED <<T, overflow_checks, caller, writer, status, ret, fields, reads, ovf>>

CallNew == \E x \in NewInputs : New(x)

\* The counts the caller may pass to read_next next.
ReadCounts ==
    CASE caller \in {"test", "write_read"} ->
           IF Len(reads) < Len(fields) THEN {fields[Len(reads) + 1][1]} ELSE {}
      [] caller = "read_write" ->
           IF Len(reads) < MaxFields /\ fields = <<>> /\ ret.op # "finish"
             THEN 0 .. (Width(T) - SumReads(reads))
             ELSE {}
      [] caller = "misuse" ->
           IF Len(reads) < MaxFields THEN 0 .. MaxCount ELSE {}
      [] OTHER -> {}

\* assert_eq!(r.read_next(..), ..) of the test: the other callers assert nothing.
AssertEq(bits, i) ==
    caller = "test" => bits = ToBits(TestFields[i][2])

ReadNext(count) ==
    /\ status = "running"
    /\ reader.live
    /\ LET r == Reader_read_next(T, reader.bit_vec, reader.pos, count)
       IN  /\ ovf' = (ovf \/ r.ovf)
           /\ IF r.ovf /\ overflow_checks
                THEN /\ status' = "panicked"
                     /\ reader' = reader
                     /\ ret' = ret
                     /\ reads' = Append(reads, [count |-> count, bits |-> {}, ok |-> FALSE])
                ELSE /\ status' = IF AssertEq(r.bits, Len(reads) + 1)
                                    THEN status ELSE "panicked"
                     /\ reader' = [reader EXCEPT !.pos = r.pos]
                     /\ ret' = [op |-> "read_next", arg |-> count, val |-> r.bits]
                     /\ reads' = Append(reads, [count |-> count, bits |-> r.bits, ok |-> TRUE])
    /\ UNCHANGED <<T, overflow_checks, caller, writer, fields>>

CallReadNext == \E c \in ReadCounts : ReadNext(c)

Next == CallWrite \/ Finish \/ CallNew \/ CallReadNext

Spec == Init /\ [][Next]_vars

NextOps == CallMask \/ CallWrite \/ Finish \/ CallNew \/ CallReadNext

SpecOps == InitOps /\ [][NextOps]_vars

\* ---------------------------------------------------------------- claims

W == Width(T)

\* The n bits of x from position lo up, right-aligned.
Extract(x, lo, n) == {i - lo : i \in {j \in x : lo <= j /\ j < lo + n}}

\* The value of a word as a natural number (for the 8-bit words).
RECURSIVE ToNat(_)
ToNat(x) ==
    IF x = {} THEN 0
    ELSE LET i == CHOOSE j \in x : TRUE IN (2 ^ i) + ToNat(x \ {i})

FieldCountsIn(lo, hi) ==
    \A i \in 1 .. Len(fields) : lo <= fields[i][1] /\ fields[i][1] <= hi

ReadCountsIn(lo, hi) ==
    \A i \in 1 .. Len(reads) : lo <= reads[i].count /\ reads[i].count <= hi

FieldsFit ==
    \A i \in 1 .. Len(fields) : fields[i][2] \subseteq 0 .. (fields[i][1] - 1)

\* Every read so far returned the value written by the write of the same index.
ReadsReturnFields ==
    \A i \in 1 .. Len(reads) : reads[i].ok /\ reads[i].bits = fields[i][2]

\* C1: round-trip law. Fields with 0 <= count <= W, counts summing to at most W
\* and values that fit, written in order and read back with the same counts,
\* are returned unchanged by every read_next (and no call fails).
C1_RoundTripLaw ==
    (caller = "write_read" /\ FieldCountsIn(0, W) /\ SumCounts(fields) <= W /\ FieldsFit)
        => (status = "running" /\ ReadsReturnFields)

\* C2: full-width round trip. Fields with every count in 1..W-1, counts summing
\* to exactly W and values that fit are read back unchanged; the test's six
\* fields on u128 read back as 42, 1337, 2, 0, 1, 12; and no subtraction or
\* shift of these writes and reads is out of range.
C2_FullWidthRoundTrip ==
    (caller \in {"write_read", "test"} /\ FieldCountsIn(1, W - 1)
        /\ SumCounts(fields) <= W /\ FieldsFit)
        => /\ ~ovf
           /\ status = "running"
           /\ SumCounts(fields) = W => ReadsReturnFields
           /\ caller = "test" =>
                \A i \in 1 .. Len(reads) : reads[i].bits = ToBits(TestFields[i][2])

\* The test ran to its end: six fields written on u128, six read back.
C2_Witness ==
    /\ caller = "test"
    /\ T = "u128"
    /\ status = "running"
    /\ Len(fields) = Len(TestFields)
    /\ Len(reads) = Len(TestFields)
    /\ SumCounts(fields) = W
    /\ ret = [op |-> "read_next", arg |-> 57, val |-> ToBits(12)]

\* C5: order. For writes whose counts sum to at most W, the first field
\* occupies bits W-1 down to W-count_1 of the word finish returns, the range
\* the first read_next(count_1) of a fresh Reader extracts.
C5_FirstFieldHighest ==
    (caller = "write_read" /\ ret.op = "finish" /\ Len(fields) >= 1
        /\ FieldCountsIn(0, W) /\ SumCounts(fields) <= W /\ FieldsFit)
        => Extract(ret.val, W - fields[1][1], fields[1][1]) = fields[1][2]

\* C7: the Reader's cursor. pos is 0 after new; while the counts read sum to
\* at most W, pos is their sum and at most W; a read_next(count) adds count to
\* pos and never decreases it; bit_vec stays the word passed to new.
C7_CursorState ==
    /\ (~reader.live) => (reader.pos = 0 /\ reads = <<>>)
    /\ (reader.live /\ SumReads(reads) <= W) =>
          (reader.pos = SumReads(reads) /\ reader.pos <= W)

C7_CursorStep ==
    /\ (~reader.live /\ reader'.live) =>
          (reader'.pos = 0 /\ reader'.bit_vec \in NewInputs)
    /\ reader.live =>
          /\ reader'.live
          /\ reader'.bit_vec = reader.bit_vec
          /\ (SumReads(reads') <= W /\ Len(reads') = Len(reads) + 1) =>
                /\ reader'.pos = reader.pos + reads'[Len(reads')].count
                /\ reader'.pos >= reader.pos

\* C7: the cursor invariant holds in every state and across every step.
C7_ReaderCursor == [](C7_CursorState) /\ [][C7_CursorStep]_vars

\* Three reads of a Reader over a nonzero word consumed all W bits.
C7_Witness ==
    /\ caller = "read_write"
    /\ reader.live
    /\ reader.bit_vec = ToBits(165)
    /\ Len(reads) = MaxFields
    /\ ReadCountsIn(1, W - 1)
    /\ reader.pos = W

\* C8: read_next(count) with 0 <= count and pos + count <= W returns the bits
\* of the word at positions W-pos-1 down to W-pos-count, right-aligned.
C8_Step ==
    (reader.live /\ Len(reads') = Len(reads) + 1
        /\ reader.pos + reads'[Len(reads')].count <= W)
        => /\ status' = "running"
           /\ reads'[Len(reads')].ok
           /\ reads'[Len(reads')].bits =
                 Extract(reader.bit_vec,
                         W - reader.pos - reads'[Len(reads')].count,
                         reads'[Len(reads')].count)

\* C8: every read_next step extracts exactly the bit range at the cursor.
C8_ReadNextExtracts == [][C8_Step]_vars

\* C10: read then write. For any word x and counts in 1..W-1 summing to W,
\* reading the counts from a Reader over x and writing the values read, with
\* the same counts in the same order, into a default Writer gives x back.
C10_ReadThenWrite ==
    (caller = "read_write" /\ ret.op = "finish"
        /\ ReadCountsIn(1, W - 1) /\ SumReads(reads) = W)
        => (status = "running" /\ ret.val = reader.bit_vec)

\* A nonzero word was read in three fields and rebuilt.
C10_Witness ==
    /\ caller = "read_write"
    /\ ret.op = "finish"
    /\ Len(reads) = MaxFields
    /\ Len(fields) = MaxFields
    /\ ReadCountsIn(1, W - 1)
    /\ SumReads(reads) = W
    /\ reader.bit_vec = ToBits(165)

\* C3: masking law. For 0 <= count <= W and any value, after
\* write(count, value) the low count bits of the word are the low count bits
\* of value, and the bits above them are the previous word shifted up by
\* count: no bit of value at or above position count reaches the word.
C3_Step ==
    (writer.live /\ Len(fields') = Len(fields) + 1 /\ fields'[Len(fields')][1] <= W)
        => LET count == fields'[Len(fields')][1]
               value == fields'[Len(fields')][2]
           IN  /\ status' = "running"
               /\ writer'.live
               /\ Extract(writer'.v0, 0, count) = Extract(value, 0, count)
               /\ Extract(writer'.v0, count, W - count) = Extract(writer.v0, 0, W - count)

\* C3: every write step with count <= W obeys the masking law.
C3_MaskingLaw == [][C3_Step]_vars

\* C4: n_bit_mask(n), for 0 <= n <= W, returns the word whose low n bits
\* are 1 and whose higher bits are 0; n_bit_mask(0) = 0, n_bit_mask(W) = MAX.
C4_MaskLowBits ==
    (caller = "mask" /\ ret.op = "n_bit_mask" /\ ret.arg <= W)
        => (status = "running" /\ ret.val = 0 .. (ret.arg - 1))

\* C6 as stated: no failure is ever surfaced. write, read_next and the mask
\* computation complete for any u8 count in any state.
C6_NoFailureSurfaced == status = "running"

\* C6 as amended. Without overflow checks no call fails: the state is updated
\* with wrapped arithmetic. With overflow checks write(count, _) panics
\* exactly when count = 0 or count >= W, read_next(count) exactly when
\* count = 0 or pos + count > W, n_bit_mask(n) exactly when n = 0 or n > W;
\* writing more than W bits in total does not by itself panic.
C6_Step ==
    /\ (writer.live /\ Len(fields') = Len(fields) + 1) =>
          LET count == fields'[Len(fields')][1]
          IN  /\ (status' = "panicked") <=> (overflow_checks /\ (count = 0 \/ count >= W))
              /\ (status' = "running") => writer'.live
    /\ (reader.live /\ Len(reads') = Len(reads) + 1) =>
          LET count == reads'[Len(reads')].count
          IN  /\ (status' = "panicked")
                    <=> (overflow_checks /\ (count = 0 \/ reader.pos + count > W))
              /\ (status' = "running") =>
                    (reads'[Len(reads')].ok /\ reader'.pos = (reader.pos + count) % 256)
    /\ (ret.op = "none" /\ ret'.op = "n_bit_mask") =>
          ((status' = "panicked") <=> (overflow_checks /\ (ret'.arg = 0 \/ ret'.arg > W)))

\* C6 (amended): a call panics exactly when overflow checks are on and its
\* count is out of the range above; otherwise it returns and updates state.
C6_PanicsOnlyWhenChecked == [][C6_Step]_vars

\* Without overflow checks a Reader was read past the end of its word, and a
\* Writer alike: the calls returned and the cursor moved on.
C6_Witness ==
    /\ caller = "misuse"
    /\ ~overflow_checks
    /\ ovf
    /\ status = "running"
    /\ reader.live
    /\ reader.bit_vec = MAX(T)
    /\ Len(reads) = MaxFields
    /\ reads[MaxFields].ok
    /\ SumReads(reads) > W
    /\ reader.pos = SumReads(reads)

\* The arithmetic value of the layout: field i, masked to count_i bits, times
\* 2 to the sum of the counts written after it.
RECURSIVE LayoutValue(_)
LayoutValue(s) ==
    IF s = <<>> THEN 0
    ELSE (ToNat(s[1][2]) % (2 ^ s[1][1])) * (2 ^ SumCounts(Tail(s)))
           + LayoutValue(Tail(s))

\* C9: the Writer's layout is right-aligned. After writes with every count in
\* 1..W-1 and K = the sum of the counts <= W, finish returns the sum over i of
\* (value_i mod 2^count_i) * 2^(count_{i+1} + ... + count_k): it is < 2^K,
\* the last field is in bits count_k-1..0, and when K < W the top W-K bits
\* are zero, the first field ending at bit K-1.
C9_WriterLayout ==
    (caller = "writer" /\ ret.op = "finish" /\ FieldCountsIn(1, W - 1)
        /\ SumCounts(fields) <= W)
        => LET K == SumCounts(fields)
               k == Len(fields)
           IN  /\ status = "running"
               /\ ToNat(ret.val) = LayoutValue(fields)
               /\ ToNat(ret.val) < 2 ^ K
               /\ ret.val \cap (K .. (W - 1)) = {}
               /\ k >= 1 =>
                     /\ Extract(ret.val, 0, fields[k][1]) = Extract(fields[k][2], 0, fields[k][1])
                     /\ Extract(ret.val, K - fields[1][1], fields[1][1])
                           = Extract(fields[1][2], 0, fields[1][1])

\* Three fields, the first with bits set above its count, fill fewer than W
\* bits and the Writer is finished.
C9_Witness ==
    /\ caller = "writer"
    /\ ret.op = "finish"
    /\ Len(fields) = MaxFields
    /\ FieldCountsIn(1, W - 1)
    /\ SumCounts(fields) < W
    /\ ~(fields[1][2] \subseteq 0 .. (fields[1][1] - 1))
    /\ Extract(fields[1][2], 0, fields[1][1]) # {}
    /\ fields[1][1] > 1

====
